---- MODULE Spec2Model ----
(***************************************************************************)
(* OAuth authorization and token issuance of firefly-iii-mcp.              *)
(*                                                                         *)
(* The repository holds two providers:                                     *)
(*   "server" : InMemoryOAuthProvider of packages/server, driven by the    *)
(*              MCP SDK's router (mcpAuthRouter / requireBearerAuth);      *)
(*   "mcp"    : OAuthProvider and the MCPServer routes of                  *)
(*              packages/mcp-server.                                       *)
(* A behaviour runs one of them (impl), chosen when the process starts.    *)
(*                                                                         *)
(* Date.now() is the variable now, in milliseconds.  randomUUID() and      *)
(* generateRandomString() return a value never returned before: the next   *)
(* number of a per-kind counter (uuid).  A handler runs to completion; the *)
(* SDK's token handler awaits between its three provider calls, so other   *)
(* requests run between them (reqs holds the requests in flight).          *)
(*                                                                         *)
(* The clients of one behaviour vary one request parameter (workload);     *)
(* every other parameter keeps its default.                                *)
(***************************************************************************)
EXTENDS Integers, FiniteSets, Sequences, TLC

VARIABLES
  impl,            \* which provider this process runs
  strictResource,  \* InMemoryOAuthProvider.options.strictResource
  workload,        \* the request parameter the clients of this run vary
  now,             \* Date.now()
  uuid,            \* random identifiers drawn so far, per kind
  clients,         \* InMemoryClientsStore.clients / OAuthProvider.clients
  codes,           \* InMemoryOAuthProvider.codes
  accessTokens,    \* InMemoryOAuthProvider.accessTokens
  refreshTokens,   \* InMemoryOAuthProvider.refreshTokens
  authCodes,       \* OAuthProvider.authCodes
  tokens,          \* OAuthProvider.tokens
  timers,          \* pending setTimeout callbacks of OAuthProvider.authorize
  reqs,            \* token requests in flight in the SDK's token handler
  resp,            \* the response the last step wrote, until it is sent
  codeUses,        \* history: successful exchanges per authorization code
  refreshUses,     \* history: successful grants per refresh token
  lineage,         \* history: the authorization code each token derives from
  revoked,         \* history: the issued tokens a revocation was asked for
  issuedAt,        \* history: Date.now() when each authorization code was minted
  transports,      \* createServer.transports: session id -> kind of transport
  open,            \* the session ids whose transport is open
  nextSession,     \* session ids drawn so far by randomUUID()
  http,            \* the answer of the last /mcp, /sse or /messages request
  running,         \* FALSE once stop() has run
  firefly,         \* outcome of FireflyClient.testConnection()
  posted,          \* the JSON-RPC body handed to MCPHandler
  replies          \* what MCPHandler returned for it

vars == <<impl, strictResource, workload, now, uuid, clients, codes,
          accessTokens, refreshTokens, authCodes, tokens, timers, reqs, resp,
          codeUses, refreshUses, lineage, revoked, issuedAt,
          transports, open, nextSession, http, running,
          firefly, posted, replies>>

config == <<impl, strictResource, workload>>
stores == <<codes, accessTokens, refreshTokens, authCodes, tokens>>
history == <<codeUses, refreshUses, lineage, revoked, issuedAt>>
sessions == <<transports, open, nextSession, http, running>>
rpc == <<firefly, posted, replies>>

-----------------------------------------------------------------------------
(* Bounds of the model *)

MaxClients == 2
MaxCodes == 2
MaxPairs == 3
MaxInflight == 2
MaxJumps == 2
MaxSkew == 1

(* Program constants and configuration *)

AUTH_CODE_TTL == 5 * 60 * 1000
AUTH_CODE_EXPIRY == 600000
accessTokenTtlSeconds == 5 * 60
refreshTokenTtlSeconds == 10 * 60
tokenExpiration == 5 * 60
refreshTokenExpiration == 10 * 60

None == "none"
Canonical == "https://example.com/mcp"
Other == "https://example.com/other"
defaultScopes == {"mcp:tools"}

RedirectUris == {"u1", "u2"}
Verifiers == {"v1", "v2"}

(* createHash('sha256').update(verifier).digest('base64url'): one-way, and *)
(* injective on the verifiers of the model; no digest is itself a verifier *)
Sha256Base64Url(verifier) ==
  CASE verifier = "v1" -> "h1"
    [] verifier = "v2" -> "h2"
    [] OTHER -> "h?"

-----------------------------------------------------------------------------
(* Map.set, Map.delete, Map.get *)

MapSet(m, k, v) == [x \in DOMAIN m \cup {k} |-> IF x = k THEN v ELSE m[x]]
MapDelete(m, k) == [x \in DOMAIN m \ {k} |-> m[x]]
Empty == [x \in {} |-> 0]
Lookup(m, k) == IF k \in DOMAIN m THEN {m[k]} ELSE {}

-----------------------------------------------------------------------------
(* Requests and responses *)

Idle == [pc |-> "idle"]

NoResponse ==
  [op |-> "none", req |-> Idle, error |-> "none", message |-> "none",
   found |-> {}, code |-> 0, access_token |-> 0, refresh_token |-> 0]

(* A response: the operation, its parameters, the OAuth error ("ok" on     *)
(* success) with the message of the error thrown, the stored record the    *)
(* request presented (a set, empty when absent), and what was issued (0:   *)
(* nothing).                                                               *)
Answer(op, req, found, code, access, refresh) ==
  [op |-> op, req |-> req, error |-> "ok", message |-> "none",
   found |-> found, code |-> code, access_token |-> access,
   refresh_token |-> refresh]

Fail(op, req, error, message, found) ==
  [op |-> op, req |-> req, error |-> error, message |-> message,
   found |-> found, code |-> 0, access_token |-> 0, refresh_token |-> 0]

(* No response is waiting to be sent: the event loop takes the next event *)
Ready == resp = NoResponse

(* the token of a request that carries none: !token, !authHeader hold *)
NoToken == 0

ClientIds == 1 .. MaxClients
CodeIds == 1 .. MaxCodes
TokenIds == 1 .. (2 * MaxPairs)
AccessIds == {t \in TokenIds : t % 2 = 1}
RefreshIds == {t \in TokenIds : t % 2 = 0}
Slots == 1 .. MaxInflight

(* The token strings the next grant draws *)
NewAccessToken == 2 * uuid.pairs + 1

(* a variant that hands the access token string out as refresh token too *)
RefreshTokenSameAsAccess == NewAccessToken

NewRefreshToken == 2 * uuid.pairs + 2

-----------------------------------------------------------------------------
(* Workloads: what the clients of a run send *)

Workloads == {"clients", "redirect", "pkce", "scope", "resource", "clock", "race"}

ClientLimit == IF workload = "clients" THEN MaxClients ELSE MaxClients - 1
CodeLimit == IF workload = "clients" THEN MaxCodes ELSE MaxCodes - 1
PairLimit == IF workload = "scope" THEN MaxPairs ELSE MaxPairs - 1
SlotLimit == IF workload = "race" THEN MaxInflight ELSE MaxInflight - 1

(* the client_id of a client the operator seeds with preRegister: chosen  *)
(* by the operator, never drawn by randomUUID                             *)
PreSeededId == 0

PreSeededIds ==
  IF impl = "server" /\ workload = "redirect" THEN {PreSeededId} ELSE {}

Requesters == (1 .. ClientLimit) \cup PreSeededIds
RegistrationUris ==
  IF workload = "redirect" THEN {{}, {"u1"}} ELSE {{"u1"}}
RedirectChoices ==
  IF workload = "redirect" THEN RedirectUris ELSE {"u1"}
OptionalRedirectChoices ==
  IF workload = "redirect" THEN {None} \cup RedirectUris ELSE {None}
ResourceChoices ==
  IF workload = "resource" THEN {None, Canonical, Other} ELSE {None}
VerifierChoices ==
  IF workload = "pkce" THEN Verifiers ELSE {"v1"}
AuthorizeScopes ==
  IF workload = "scope" THEN {{}, {"a", "b"}} ELSE {{}}
RefreshScopes ==
  IF workload = "scope" THEN {{}, {"a"}, {"a", "b"}} ELSE {{}}

(* req.headers['mcp-session-id'] / req.query.sessionId when the request   *)
(* carries none                                                           *)
NoSession == 0

(* no request to /mcp, /sse or /messages has been answered yet *)
NoHttp ==
  [route |-> None, method |-> None, sessionId |-> NoSession,
   initialize |-> FALSE, found |-> None, status |-> 0, invoked |-> None,
   on |-> None, created |-> None]

(* createServer: const transports = {} and a server that listens *)
SessionsAtRest ==
  /\ transports = Empty
  /\ open = {}
  /\ nextSession = 0
  /\ http = NoHttp
  /\ running = TRUE

(* no body has been posted to MCPHandler *)
NoBody == [batch |-> FALSE, requests |-> <<>>]
NoReplies == [outcome |-> "pending", responses |-> <<>>]

HandlerAtRest ==
  /\ firefly = "connected"
  /\ posted = NoBody
  /\ replies = NoReplies

(* the constructors of the clients store and of the provider *)
OAuthAtRest ==
  /\ now = 0
  /\ uuid = [clients |-> 0, codes |-> 0, pairs |-> 0]
  /\ clients = Empty
  /\ codes = Empty
  /\ accessTokens = Empty
  /\ refreshTokens = Empty
  /\ authCodes = Empty
  /\ tokens = Empty
  /\ timers = Empty
  /\ reqs = [s \in Slots |-> Idle]
  /\ resp = NoResponse
  /\ codeUses = Empty
  /\ refreshUses = Empty
  /\ lineage = Empty
  /\ revoked = {}
  /\ issuedAt = Empty

Init ==
  /\ impl \in {"server", "mcp"}
  /\ workload \in Workloads
  /\ strictResource \in BOOLEAN
  /\ (impl = "mcp" \/ workload # "resource") => strictResource = TRUE
  /\ OAuthAtRest
  /\ SessionsAtRest
  /\ HandlerAtRest

(* res.json / res.redirect: the response leaves *)
Respond ==
  /\ ~Ready
  /\ resp' = NoResponse
  /\ UNCHANGED <<config, sessions, rpc, now, uuid, clients, stores, timers, reqs, history>>

-----------------------------------------------------------------------------
(* The clock *)

Tick ==
  /\ Ready
  /\ workload = "clock"
  /\ now % AUTH_CODE_TTL < MaxSkew
  /\ now' = now + 1
  /\ UNCHANGED <<config, sessions, rpc, uuid, clients, stores, timers, reqs, resp, history>>

Jump ==
  /\ Ready
  /\ workload = "clock"
  /\ now \div AUTH_CODE_TTL < MaxJumps
  /\ now' = now + AUTH_CODE_TTL
  /\ UNCHANGED <<config, sessions, rpc, uuid, clients, stores, timers, reqs, resp, history>>

-----------------------------------------------------------------------------
(* packages/server: InMemoryClientsStore *)

(* a variant that returns the client already registered with the same     *)
(* metadata instead of storing a new one                                  *)
ClientsDeduplicated(clientId, fullClient) ==
  IF \E c \in DOMAIN clients :
       clients[c].redirect_uris = fullClient.redirect_uris
  THEN clients
  ELSE MapSet(clients, clientId, fullClient)

(* this.clients.set(clientId, fullClient) *)
ClientsAfterRegister(clientId, fullClient) ==
  MapSet(clients, clientId, fullClient)

InMemory_registerClient(redirect_uris) ==
  /\ Ready
  /\ impl = "server"
  /\ uuid.clients < ClientLimit
  /\ LET clientId == uuid.clients + 1
         fullClient == [client_id |-> clientId, redirect_uris |-> redirect_uris]
     IN /\ clients' = ClientsAfterRegister(clientId, fullClient)
        /\ uuid' = [uuid EXCEPT !.clients = clientId]
        /\ resp' = Answer("register", [redirect_uris |-> redirect_uris],
                          {fullClient}, 0, 0, 0)
  /\ UNCHANGED <<config, sessions, rpc, now, stores, timers, reqs, history>>

(* the clients preRegister is called with: a client_id the operator      *)
(* chose, or the client_id of a client the registry already returned      *)
PreRegisterParams ==
  [client_id : IF impl = "server" /\ workload = "redirect"
               THEN PreSeededIds \cup DOMAIN clients ELSE {},
   redirect_uris : RegistrationUris]

(* preRegister(client): a method call of the embedding program, no HTTP    *)
(* response                                                               *)
preRegister(client) ==
  /\ Ready
  /\ impl = "server"
  /\ clients' = MapSet(clients, client.client_id, client)
  /\ UNCHANGED <<config, sessions, rpc, now, uuid, stores, timers, reqs, resp, history>>

-----------------------------------------------------------------------------
(* packages/server: InMemoryOAuthProvider *)

(* a variant that accepts any resource whatever the mode *)
ResourceUnvalidated(resource) == TRUE

(* validateResource returns without throwing *)
ValidResource(resource) ==
  \/ resource = None
  \/ ~strictResource
  \/ resource = Canonical

determineResource(requested) ==
  IF requested = None THEN Canonical ELSE requested

(* client.redirect_uris.includes(params.redirectUri) *)
RegisteredRedirect(client, redirectUri) ==
  redirectUri \in client.redirect_uris

(* a variant that takes the deadline itself for expired *)
IsExpiredInclusive(record) == record.expiresAt <= now

(* record.expiresAt < Date.now() *)
IsExpired(record) == record.expiresAt < now

ServerChallenge == Sha256Base64Url("v1")

AuthorizeParams ==
  [client_id : Requesters, redirectUri : RedirectChoices,
   scopes : AuthorizeScopes, resource : ResourceChoices]

(* What authorize stores under the new code *)
AuthorizationCodeRecord(client, params) ==
  [codeChallenge |-> ServerChallenge,
   clientId |-> client.client_id,
   redirectUri |-> params.redirectUri,
   scopes |-> IF params.scopes # {} THEN params.scopes ELSE defaultScopes,
   resource |-> determineResource(params.resource),
   expiresAt |-> now + AUTH_CODE_TTL]

(* GET /authorize: the SDK resolves client_id in the clients store, then   *)
(* calls provider.authorize(client, params, res)                           *)
InMemory_authorize(params) ==
  /\ Ready
  /\ impl = "server"
  /\ IF params.client_id \notin DOMAIN clients
     THEN /\ resp' = Fail("authorize", params, "invalid_client",
                          "Invalid client_id", {})
          /\ UNCHANGED <<codes, uuid, codeUses, issuedAt>>
     ELSE LET client == clients[params.client_id] IN
       IF ~RegisteredRedirect(client, params.redirectUri)
       THEN /\ resp' = Fail("authorize", params, "invalid_request",
                            "Unregistered redirect_uri", {client})
            /\ UNCHANGED <<codes, uuid, codeUses, issuedAt>>
       ELSE IF ~ValidResource(params.resource)
       THEN /\ resp' = Fail("authorize", params, "invalid_request",
                            "Invalid resource parameter", {client})
            /\ UNCHANGED <<codes, uuid, codeUses, issuedAt>>
       ELSE
         /\ uuid.codes < CodeLimit
         /\ LET code == uuid.codes + 1 IN
              /\ codes' = MapSet(codes, code,
                                 AuthorizationCodeRecord(client, params))
              /\ uuid' = [uuid EXCEPT !.codes = code]
              /\ codeUses' = MapSet(codeUses, code, 0)
              /\ issuedAt' = MapSet(issuedAt, code, now)
              /\ resp' = Answer("authorize", params, {client}, code, 0, 0)
  /\ UNCHANGED <<config, sessions, rpc, now, clients, accessTokens, refreshTokens, authCodes,
                 tokens, timers, reqs, refreshUses, lineage, revoked>>

(* POST /token, grant_type=authorization_code.  The SDK's token handler    *)
(* awaits challengeForAuthorizationCode, then the PKCE check, then         *)
(* exchangeAuthorizationCode: three steps, other requests run in between.  *)
CodeGrantParams ==
  [client : Requesters, code : CodeIds, code_verifier : VerifierChoices,
   redirect_uri : OptionalRedirectChoices, resource : ResourceChoices]

InMemory_tokenRequest(s, p) ==
  /\ Ready
  /\ impl = "server"
  /\ s <= SlotLimit
  /\ reqs[s].pc = "idle"
  /\ \A r \in Slots : r < s => reqs[r].pc # "idle"
  /\ p.client \in DOMAIN clients
  /\ reqs' = [reqs EXCEPT ![s] =
       [pc |-> "challenge", grant_type |-> "authorization_code",
        client |-> p.client, code |-> p.code,
        code_verifier |-> p.code_verifier, redirect_uri |-> p.redirect_uri,
        resource |-> p.resource, codeChallenge |-> None]]
  /\ UNCHANGED <<config, sessions, rpc, now, uuid, clients, stores, timers, resp, history>>

(* a variant that hands a code or refresh token to whoever presents it *)
IssuedToAnyone(record, client) == TRUE

(* record.clientId !== client.client_id, negated *)
IssuedTo(record, client) == record.clientId = client

challengeForAuthorizationCode(s) ==
  /\ Ready
  /\ impl = "server"
  /\ reqs[s].pc = "challenge"
  /\ LET r == reqs[s] IN
       IF \/ r.code \notin DOMAIN codes
          \/ ~IssuedTo(codes[r.code], r.client)
          \/ IsExpired(codes[r.code])
       THEN /\ resp' = Fail("token", r, "invalid_grant",
                            "Invalid authorization code", Lookup(codes, r.code))
            /\ reqs' = [reqs EXCEPT ![s] = Idle]
       ELSE /\ resp' = resp
            /\ reqs' = [reqs EXCEPT ![s] =
                 [r EXCEPT !.pc = "pkce",
                           !.codeChallenge = codes[r.code].codeChallenge]]
  /\ UNCHANGED <<config, sessions, rpc, now, uuid, clients, stores, timers, history>>

(* verifyChallenge(code_verifier, codeChallenge) of the SDK: S256 only *)
verifyChallenge(code_verifier, codeChallenge) ==
  Sha256Base64Url(code_verifier) = codeChallenge

PkceCheck(s) ==
  /\ Ready
  /\ impl = "server"
  /\ reqs[s].pc = "pkce"
  /\ LET r == reqs[s] IN
       IF ~verifyChallenge(r.code_verifier, r.codeChallenge)
       THEN /\ resp' = Fail("token", r, "invalid_grant",
                            "code_verifier does not match the challenge",
                            Lookup(codes, r.code))
            /\ reqs' = [reqs EXCEPT ![s] = Idle]
       ELSE /\ resp' = resp
            /\ reqs' = [reqs EXCEPT ![s] = [r EXCEPT !.pc = "exchange"]]
  /\ UNCHANGED <<config, sessions, rpc, now, uuid, clients, stores, timers, history>>

(* a variant that forgets to consume the code *)
CodesKept(code) == codes

(* this.codes.delete(authorizationCode) after the checks *)
CodesAfterExchange(code) == MapDelete(codes, code)

TokenRecord(token, clientId, scopes, resource, ttlSeconds) ==
  [token |-> token, clientId |-> clientId, scopes |-> scopes,
   resource |-> resource, expiresAt |-> now + ttlSeconds * 1000]

Origin(code, record) ==
  [code |-> code, client |-> record.clientId, scopes |-> record.scopes,
   resource |-> record.resource]

(* a variant in which a grant replaces the client's earlier access tokens *)
AccessTokensOfClientReplaced(accessToken, record) ==
  LET kept == {t \in DOMAIN accessTokens :
                 accessTokens[t].clientId # record.clientId}
  IN MapSet([t \in kept |-> accessTokens[t]], accessToken, record)

(* this.accessTokens.set(accessToken, {...}) *)
AccessTokensAfterGrant(accessToken, record) ==
  MapSet(accessTokens, accessToken, record)

exchangeAuthorizationCode(s) ==
  /\ Ready
  /\ impl = "server"
  /\ reqs[s].pc = "exchange"
  /\ LET r == reqs[s]
         found == Lookup(codes, r.code)
     IN
       IF r.code \notin DOMAIN codes \/ ~IssuedTo(codes[r.code], r.client)
       THEN /\ resp' = Fail("token", r, "invalid_grant",
                            "Invalid authorization code", found)
            /\ UNCHANGED <<codes, accessTokens, refreshTokens, uuid, history>>
       ELSE LET record == codes[r.code] IN
         IF IsExpired(record)
         THEN /\ codes' = MapDelete(codes, r.code)
              /\ resp' = Fail("token", r, "invalid_grant",
                              "Authorization code expired", found)
              /\ UNCHANGED <<accessTokens, refreshTokens, uuid, history>>
         ELSE IF r.redirect_uri # None /\ record.redirectUri # r.redirect_uri
         THEN /\ resp' = Fail("token", r, "invalid_grant",
                              "Redirect URI mismatch", found)
              /\ UNCHANGED <<codes, accessTokens, refreshTokens, uuid, history>>
         ELSE LET requested == IF r.resource # None THEN r.resource
                               ELSE record.resource IN
           IF ~ValidResource(requested)
           THEN /\ resp' = Fail("token", r, "invalid_request",
                                "Invalid resource parameter", found)
                /\ UNCHANGED <<codes, accessTokens, refreshTokens, uuid,
                               history>>
           ELSE
             /\ uuid.pairs < PairLimit
             /\ LET tokenResource == determineResource(requested)
                    accessToken == NewAccessToken
                    refreshToken == NewRefreshToken
                IN /\ codes' = CodesAfterExchange(r.code)
                   /\ accessTokens' = AccessTokensAfterGrant(accessToken,
                        TokenRecord(accessToken, r.client, record.scopes,
                                    tokenResource, accessTokenTtlSeconds))
                   /\ refreshTokens' = MapSet(refreshTokens, refreshToken,
                        TokenRecord(refreshToken, r.client, record.scopes,
                                    tokenResource, refreshTokenTtlSeconds))
                   /\ uuid' = [uuid EXCEPT !.pairs = @ + 1]
                   /\ codeUses' = [codeUses EXCEPT ![r.code] = @ + 1]
                   /\ UNCHANGED <<revoked, issuedAt>>
                   /\ refreshUses' = MapSet(refreshUses, refreshToken, 0)
                   /\ lineage' = MapSet(MapSet(lineage, accessToken,
                                               Origin(r.code, record)),
                                        refreshToken, Origin(r.code, record))
                   /\ resp' = Answer("token", r, found, 0, accessToken,
                                     refreshToken)
  /\ reqs' = [reqs EXCEPT ![s] = Idle]
  /\ UNCHANGED <<config, sessions, rpc, now, clients, authCodes, tokens, timers>>

(* POST /token, grant_type=refresh_token: one provider call *)
RefreshGrantParams ==
  [client : Requesters, refresh_token : TokenIds, scopes : RefreshScopes,
   resource : ResourceChoices]

(* a variant that grants whatever scopes the request names *)
ScopesUnchecked(requestedScopes, record) == TRUE

(* requestedScopes.some(scope => !record.scopes.includes(scope)) is false *)
ScopesAuthorized(requestedScopes, record) ==
  requestedScopes \subseteq record.scopes

(* a variant that leaves the presented refresh token in the store *)
RefreshTokensKept(refreshToken, newRefreshToken, newRecord) ==
  MapSet(refreshTokens, newRefreshToken, newRecord)

(* the refresh-token store once the grant has rotated refreshToken *)
RefreshTokensAfterRotation(refreshToken, newRefreshToken, newRecord) ==
  MapDelete(MapSet(refreshTokens, newRefreshToken, newRecord), refreshToken)

exchangeRefreshToken(p) ==
  /\ Ready
  /\ impl = "server"
  /\ p.client \in DOMAIN clients
  /\ LET r == [grant_type |-> "refresh_token"] @@ p
         found == Lookup(refreshTokens, p.refresh_token)
     IN
       IF \/ p.refresh_token \notin DOMAIN refreshTokens
          \/ ~IssuedTo(refreshTokens[p.refresh_token], p.client)
       THEN /\ resp' = Fail("token", r, "invalid_grant",
                            "Invalid refresh token", found)
            /\ UNCHANGED <<accessTokens, refreshTokens, uuid, history>>
       ELSE LET record == refreshTokens[p.refresh_token] IN
         IF IsExpired(record)
         THEN /\ refreshTokens' = MapDelete(refreshTokens, p.refresh_token)
              /\ resp' = Fail("token", r, "invalid_grant",
                              "Refresh token expired", found)
              /\ UNCHANGED <<accessTokens, uuid, history>>
         ELSE LET requestedScopes == IF p.scopes # {} THEN p.scopes
                                     ELSE record.scopes
                  requested == IF p.resource # None THEN p.resource
                               ELSE record.resource
              IN
           IF ~ScopesAuthorized(requestedScopes, record)
           THEN /\ resp' = Fail("token", r, "invalid_grant",
                     "Refresh token not authorized for requested scopes", found)
                /\ UNCHANGED <<accessTokens, refreshTokens, uuid, history>>
           ELSE IF ~ValidResource(requested)
           THEN /\ resp' = Fail("token", r, "invalid_request",
                                "Invalid resource parameter", found)
                /\ UNCHANGED <<accessTokens, refreshTokens, uuid, history>>
           ELSE
             /\ uuid.pairs < PairLimit
             /\ LET tokenResource == determineResource(requested)
                    newAccessToken == NewAccessToken
                    newRefreshToken == NewRefreshToken
                IN /\ accessTokens' = AccessTokensAfterGrant(newAccessToken,
                        TokenRecord(newAccessToken, p.client, requestedScopes,
                                    tokenResource, accessTokenTtlSeconds))
                   /\ refreshTokens' = RefreshTokensAfterRotation(
                        p.refresh_token, newRefreshToken,
                        TokenRecord(newRefreshToken, p.client, requestedScopes,
                                    tokenResource, refreshTokenTtlSeconds))
                   /\ uuid' = [uuid EXCEPT !.pairs = @ + 1]
                   /\ refreshUses' = MapSet(
                        [refreshUses EXCEPT ![p.refresh_token] = @ + 1],
                        newRefreshToken, 0)
                   /\ lineage' = MapSet(MapSet(lineage, newAccessToken,
                                               lineage[p.refresh_token]),
                                        newRefreshToken,
                                        lineage[p.refresh_token])
                   /\ UNCHANGED <<codeUses, revoked, issuedAt>>
                   /\ resp' = Answer("token", r, found, 0, newAccessToken,
                                     newRefreshToken)
  /\ UNCHANGED <<config, sessions, rpc, now, clients, codes, authCodes, tokens, timers, reqs>>

(* a variant that compares the resource whatever the mode *)
ResourceAlwaysCompared(record) == record.resource = Canonical

(* strictResource && record.resource && href !== canonical href is false *)
ResourceAccepted(record) ==
  ~(strictResource /\ record.resource # Canonical)

(* a variant that reports the expiry and keeps the record *)
AccessTokensUnevicted(token) == accessTokens

(* this.accessTokens.delete(token) of an expired record *)
AccessTokensAfterEviction(token) == MapDelete(accessTokens, token)

(* requireBearerAuth calls provider.verifyAccessToken(token) *)

(* the header value of an HTTP response that does not set the header *)
Unset == None

(* requireBearerAuth of the SDK, in front of /mcp, /sse and /messages:    *)
(* an error of the verifier is answered 401 with a WWW-Authenticate:      *)
(* Bearer header naming the resource metadata, and only a verified token  *)
(* lets next() run the handler                                            *)
requireBearerAuth(r) ==
  r @@ [status |-> IF r.error = "ok" THEN 0 ELSE 401,
        www_authenticate |-> IF r.error = "ok" THEN Unset ELSE "Bearer",
        handler |-> r.error = "ok"]

(* requireBearerAuth on a request without an Authorization: Bearer header *)
(* (op "bearer": no token was there to verify)                            *)
bearerAuthWithoutToken ==
  /\ Ready
  /\ impl = "server"
  /\ resp' = requireBearerAuth(Fail("bearer", [token |-> NoToken],
                 "invalid_token", "Missing Authorization header", {}))
  /\ UNCHANGED <<config, sessions, rpc, now, uuid, clients, stores, timers, reqs, history>>

verifyAccessToken(token) ==
  /\ Ready
  /\ impl = "server"
  /\ LET r == [token |-> token]
         found == Lookup(accessTokens, token)
     IN
       IF token \notin DOMAIN accessTokens
       THEN /\ resp' = requireBearerAuth(Fail("verify", r, "invalid_token",
                            "Unknown access token", found))
            /\ UNCHANGED accessTokens
       ELSE IF IsExpired(accessTokens[token])
       THEN /\ accessTokens' = AccessTokensAfterEviction(token)
            /\ resp' = requireBearerAuth(Fail("verify", r, "invalid_token",
                            "Access token expired", found))
       ELSE IF ~ResourceAccepted(accessTokens[token])
       THEN /\ resp' = requireBearerAuth(Fail("verify", r, "invalid_token",
                            "Token not issued for this resource", found))
            /\ UNCHANGED accessTokens
       ELSE /\ resp' = requireBearerAuth(Answer("verify", r, found, 0, 0, 0))
            /\ UNCHANGED accessTokens
  /\ UNCHANGED <<config, sessions, rpc, now, uuid, clients, codes, refreshTokens, authCodes,
                 tokens, timers, reqs, history>>

RevokeParams == [client : Requesters, token : TokenIds]

(* the history of revocations once one was asked for this token string *)
RevokedWith(token) ==
  IF token \in DOMAIN lineage THEN revoked \cup {token} ELSE revoked

(* a variant that looks for the token among the access tokens only *)
RefreshTokensUnrevoked(token) == refreshTokens

(* a variant that revokes every access token of the token's client *)
AccessTokensOfClientRevoked(token) ==
  LET kept == {t \in DOMAIN accessTokens :
                 \/ token \notin DOMAIN accessTokens
                 \/ accessTokens[t].clientId # accessTokens[token].clientId}
  IN [t \in kept |-> accessTokens[t]]

(* if (this.accessTokens.has(token)) this.accessTokens.delete(token) *)
AccessTokensAfterRevoke(token) == MapDelete(accessTokens, token)

(* if (this.refreshTokens.has(token)) this.refreshTokens.delete(token) *)
RefreshTokensAfterRevoke(token) == MapDelete(refreshTokens, token)

(* POST /revoke: the SDK authenticates the client and calls revokeToken *)
revokeToken(p) ==
  /\ Ready
  /\ impl = "server"
  /\ p.client \in DOMAIN clients
  /\ accessTokens' = AccessTokensAfterRevoke(p.token)
  /\ refreshTokens' = RefreshTokensAfterRevoke(p.token)
  /\ revoked' = RevokedWith(p.token)
  /\ resp' = Answer("revoke", p, Lookup(accessTokens, p.token)
                                   \cup Lookup(refreshTokens, p.token), 0, 0, 0)
  /\ UNCHANGED <<config, sessions, rpc, now, uuid, clients, codes, authCodes, tokens, timers,
                 reqs, codeUses, refreshUses, lineage, issuedAt>>

-----------------------------------------------------------------------------
(* packages/mcp-server: OAuthProvider and the routes of MCPServer *)

(* POST /oauth/register *)
OAuthProvider_registerClient(redirect_uris) ==
  /\ Ready
  /\ impl = "mcp"
  /\ uuid.clients < ClientLimit
  /\ LET clientId == uuid.clients + 1
         client == [client_id |-> clientId, redirect_uris |-> redirect_uris]
     IN /\ clients' = MapSet(clients, clientId, client)
        /\ uuid' = [uuid EXCEPT !.clients = clientId]
        /\ resp' = Answer("register", [redirect_uris |-> redirect_uris],
                          {client}, 0, 0, 0)
  /\ UNCHANGED <<config, sessions, rpc, now, stores, timers, reqs, history>>

(* code_challenge with code_challenge_method, as the query string has them *)
PkceChoices ==
  IF workload = "pkce"
  THEN {<<None, None>>, <<"h1", None>>, <<"h1", "S256">>, <<"v1", "plain">>,
        <<"h1", "S512">>}
  ELSE {<<"h1", "S256">>}

McpRedirectChoices ==
  IF workload = "redirect" THEN {None} \cup RedirectUris ELSE {"u1"}
McpScopeChoices ==
  IF workload = "scope" THEN {None, "a b"} ELSE {None}
McpVerifierChoices ==
  IF workload = "pkce" THEN {None} \cup Verifiers ELSE {"v1"}

McpAuthorizeParams ==
  [client_id : Requesters, redirect_uri : McpRedirectChoices,
   scope : McpScopeChoices, pkce : PkceChoices]

(* the redirect_uri check of authorize lets the request through *)
RedirectAllowed(client, redirect_uri) ==
  ~(client.redirect_uris # {} /\ redirect_uri # None
      /\ redirect_uri \notin client.redirect_uris)

OAuthAuthorizationCode(code, params) ==
  [code |-> code,
   client_id |-> params.client_id,
   redirect_uri |-> params.redirect_uri,
   scope |-> IF params.scope # None THEN params.scope ELSE "mcp",
   code_challenge |-> params.pkce[1],
   code_challenge_method |-> params.pkce[2],
   created_at |-> now,
   expires_at |-> now + AUTH_CODE_EXPIRY]

(* GET /oauth/authorize: every error of authorize is answered 400          *)
(* invalid_request                                                         *)
OAuthProvider_authorize(params) ==
  /\ Ready
  /\ impl = "mcp"
  /\ IF params.client_id \notin DOMAIN clients
     THEN /\ resp' = Fail("authorize", params, "invalid_request",
                          "Invalid client_id", {})
          /\ UNCHANGED <<authCodes, timers, uuid, codeUses, issuedAt>>
     ELSE LET client == clients[params.client_id] IN
       IF ~RedirectAllowed(client, params.redirect_uri)
       THEN /\ resp' = Fail("authorize", params, "invalid_request",
                            "Invalid redirect_uri", {client})
            /\ UNCHANGED <<authCodes, timers, uuid, codeUses, issuedAt>>
       ELSE
         /\ uuid.codes < CodeLimit
         /\ LET code == uuid.codes + 1 IN
              /\ authCodes' = MapSet(authCodes, code,
                                     OAuthAuthorizationCode(code, params))
              /\ timers' = MapSet(timers, code, now + AUTH_CODE_EXPIRY)
              /\ uuid' = [uuid EXCEPT !.codes = code]
              /\ codeUses' = MapSet(codeUses, code, 0)
              /\ issuedAt' = MapSet(issuedAt, code, now)
              /\ resp' = Answer("authorize", params, {client}, code, 0, 0)
  /\ UNCHANGED <<config, sessions, rpc, now, clients, codes, accessTokens, refreshTokens,
                 tokens, reqs, refreshUses, lineage, revoked>>

(* setTimeout(() => this.authCodes.delete(code), 600000) *)
AuthCodeCleanup(code) ==
  /\ Ready
  /\ impl = "mcp"
  /\ code \in DOMAIN timers
  /\ now >= timers[code]
  /\ authCodes' = MapDelete(authCodes, code)
  /\ timers' = MapDelete(timers, code)
  /\ UNCHANGED <<config, sessions, rpc, now, uuid, clients, codes, accessTokens,
                 refreshTokens, tokens, reqs, resp, history>>

(* a variant that knows the plain method only *)
verifyPKCEPlainOnly(verifier, challenge, method) ==
  method = "plain" /\ verifier = challenge

verifyPKCE(verifier, challenge, method) ==
  IF method = "plain" THEN verifier = challenge
  ELSE IF method = "S256" THEN Sha256Base64Url(verifier) = challenge
  ELSE FALSE

(* a variant that allows a grace period after the deadline *)
PastExpiryWithGrace(expires_at) == now > expires_at + AUTH_CODE_TTL

(* Date.now() > record.expires_at *)
PastExpiry(expires_at) == now > expires_at

(* a variant that forgets to consume the code *)
AuthCodesKept(code) == authCodes

(* this.authCodes.delete(code) after the checks *)
AuthCodesAfterGrant(code) == MapDelete(authCodes, code)

OAuthAccessToken(accessToken, clientId, scope, refreshToken) ==
  [access_token |-> accessToken,
   client_id |-> clientId,
   scope |-> scope,
   created_at |-> now,
   expires_at |-> now + tokenExpiration * 1000,
   refresh_token |-> refreshToken,
   refresh_token_expires_at |-> now + refreshTokenExpiration * 1000]

(* the scope names of a space-separated scope string *)
McpScopeSet(scope) ==
  CASE scope = "a b" -> {"a", "b"}
    [] scope = None -> {}
    [] OTHER -> {scope}

McpOrigin(authCode) ==
  [code |-> authCode.code, client |-> authCode.client_id,
   scope |-> authCode.scope, scopes |-> McpScopeSet(authCode.scope),
   resource |-> None]

McpCodeGrantParams ==
  [client_id : Requesters, code : CodeIds, code_verifier : McpVerifierChoices,
   redirect_uri : OptionalRedirectChoices]

(* a variant that burns a code another client has presented *)
AuthCodesBurned(code) == MapDelete(authCodes, code)

(* throw new Error('Client mismatch'): the code stays where it is *)
AuthCodesAfterRefusal(code) == authCodes

(* POST /oauth/token, grant_type=authorization_code: token() calls         *)
(* handleAuthorizationCodeGrant, which never awaits; every error is        *)
(* answered 400 invalid_grant                                              *)
handleAuthorizationCodeGrant(p) ==
  /\ Ready
  /\ impl = "mcp"
  /\ LET r == [grant_type |-> "authorization_code"] @@ p
         found == Lookup(authCodes, p.code)
     IN
       IF p.code \notin DOMAIN authCodes
       THEN /\ resp' = Fail("token", r, "invalid_grant",
                            "Invalid or expired authorization code", found)
            /\ UNCHANGED <<authCodes, tokens, uuid, history>>
       ELSE LET authCode == authCodes[p.code] IN
         IF PastExpiry(authCode.expires_at)
         THEN /\ authCodes' = MapDelete(authCodes, p.code)
              /\ resp' = Fail("token", r, "invalid_grant",
                              "Authorization code expired", found)
              /\ UNCHANGED <<tokens, uuid, history>>
         ELSE IF authCode.client_id # p.client_id
         THEN /\ resp' = Fail("token", r, "invalid_grant", "Client mismatch",
                              found)
              /\ authCodes' = AuthCodesAfterRefusal(p.code)
              /\ UNCHANGED <<tokens, uuid, history>>
         ELSE IF authCode.code_challenge # None /\ p.code_verifier = None
         THEN /\ resp' = Fail("token", r, "invalid_grant",
                              "code_verifier required", found)
              /\ UNCHANGED <<authCodes, tokens, uuid, history>>
         ELSE IF /\ authCode.code_challenge # None
                 /\ ~verifyPKCE(p.code_verifier, authCode.code_challenge,
                                IF authCode.code_challenge_method # None
                                THEN authCode.code_challenge_method
                                ELSE "S256")
         THEN /\ resp' = Fail("token", r, "invalid_grant",
                              "Invalid code_verifier", found)
              /\ UNCHANGED <<authCodes, tokens, uuid, history>>
         ELSE
           /\ uuid.pairs < PairLimit
           /\ LET accessToken == NewAccessToken
                  refreshToken == NewRefreshToken
              IN /\ authCodes' = AuthCodesAfterGrant(p.code)
                 /\ tokens' = MapSet(tokens, accessToken,
                      OAuthAccessToken(accessToken, p.client_id,
                                       authCode.scope, refreshToken))
                 /\ uuid' = [uuid EXCEPT !.pairs = @ + 1]
                 /\ codeUses' = [codeUses EXCEPT ![p.code] = @ + 1]
                 /\ UNCHANGED <<revoked, issuedAt>>
                 /\ refreshUses' = MapSet(refreshUses, refreshToken, 0)
                 /\ lineage' = MapSet(MapSet(lineage, accessToken,
                                             McpOrigin(authCode)),
                                      refreshToken, McpOrigin(authCode))
                 /\ resp' = Answer("token", r, found, 0, accessToken,
                                   refreshToken)
  /\ UNCHANGED <<config, sessions, rpc, now, clients, codes, accessTokens, refreshTokens,
                 timers, reqs>>

(* scope is a field of the request body that token() never reads *)
McpRefreshScopeChoices ==
  IF workload = "scope" THEN {None, "a", "admin"} ELSE {None}

McpRefreshGrantParams ==
  [client_id : Requesters, refresh_token : TokenIds,
   scope : McpRefreshScopeChoices]

(* the records of this.tokens with this refresh token and client *)
TokensByRefreshToken(refreshToken, clientId) ==
  {t \in DOMAIN tokens : /\ tokens[t].refresh_token = refreshToken
                         /\ tokens[t].client_id = clientId}

(* a variant that keeps the record of the presented refresh token *)
TokensKept(existingToken, newAccessToken, tokenData) ==
  MapSet(tokens, newAccessToken, tokenData)

(* the token store once the grant has replaced existingToken *)
TokensAfterRefresh(existingToken, newAccessToken, tokenData) ==
  MapSet(MapDelete(tokens, existingToken.access_token), newAccessToken,
         tokenData)

(* POST /oauth/token, grant_type=refresh_token *)
handleRefreshTokenGrant(p) ==
  /\ Ready
  /\ impl = "mcp"
  /\ LET r == [grant_type |-> "refresh_token"] @@ p
         matching == TokensByRefreshToken(p.refresh_token, p.client_id)
         found == {tokens[t] : t \in matching}
     IN
       IF matching = {}
       THEN /\ resp' = Fail("token", r, "invalid_grant",
                            "Invalid refresh_token", found)
            /\ UNCHANGED <<tokens, uuid, history>>
       ELSE LET existingToken == tokens[CHOOSE t \in matching : TRUE] IN
         IF PastExpiry(existingToken.refresh_token_expires_at)
         THEN /\ resp' = Fail("token", r, "invalid_grant",
                              "Refresh token expired", found)
              /\ UNCHANGED <<tokens, uuid, history>>
         ELSE
           /\ uuid.pairs < PairLimit
           /\ LET newAccessToken == NewAccessToken
                  newRefreshToken == NewRefreshToken
              IN /\ tokens' = TokensAfterRefresh(existingToken, newAccessToken,
                      OAuthAccessToken(newAccessToken, p.client_id,
                                       existingToken.scope, newRefreshToken))
                 /\ uuid' = [uuid EXCEPT !.pairs = @ + 1]
                 /\ refreshUses' = MapSet(
                      [refreshUses EXCEPT ![p.refresh_token] = @ + 1],
                      newRefreshToken, 0)
                 /\ lineage' = MapSet(MapSet(lineage, newAccessToken,
                                             lineage[p.refresh_token]),
                                      newRefreshToken, lineage[p.refresh_token])
                 /\ UNCHANGED <<codeUses, revoked, issuedAt>>
                 /\ resp' = Answer("token", r, found, 0, newAccessToken,
                                   newRefreshToken)
  /\ UNCHANGED <<config, sessions, rpc, now, clients, codes, accessTokens, refreshTokens,
                 authCodes, timers, reqs>>

(* grant types of a token request that token() has no branch for *)
OtherGrantTypes == {"client_credentials", "password"}

(* POST /oauth/token with another grant_type: token() throws, the route    *)
(* answers 400 invalid_grant as for every error                            *)
unsupportedGrantType(p) ==
  /\ Ready
  /\ impl = "mcp"
  /\ resp' = Fail("token", p, "invalid_grant", "Unsupported grant_type", {})
  /\ UNCHANGED <<config, sessions, rpc, now, uuid, clients, stores, timers, reqs, history>>

(* POST /mcp: authenticateRequest calls validateToken on the bearer token *)
(* MCPServer.authenticateRequest around the outcome r of its token check: *)
(* res.status(401).json({error, error_description, www_authenticate})     *)
(* puts the challenge in the JSON body and sets no response header;       *)
(* next() runs the handler only when validateToken returned a record      *)
authenticateRequest(r) ==
  r @@ [status |-> IF r.error = "ok" THEN 0 ELSE 401,
        www_authenticate |-> Unset,
        body |-> IF r.error = "ok" THEN [www_authenticate |-> Unset]
                 ELSE [www_authenticate |-> "Bearer"],
        handler |-> r.error = "ok"]

(* authenticateRequest on a request whose Authorization header is missing *)
(* or does not start with 'Bearer '                                       *)
authenticateRequestWithoutToken ==
  /\ Ready
  /\ impl = "mcp"
  /\ resp' = authenticateRequest(Fail("bearer", [token |-> NoToken],
                 "unauthorized", "Missing or invalid Authorization header",
                 {}))
  /\ UNCHANGED <<config, sessions, rpc, now, uuid, clients, stores, timers, reqs, history>>

validateToken(accessToken) ==
  /\ Ready
  /\ impl = "mcp"
  /\ LET r == [token |-> accessToken]
         found == Lookup(tokens, accessToken)
     IN
       IF accessToken \notin DOMAIN tokens
       THEN /\ resp' = authenticateRequest(Fail("verify", r, "invalid_token",
                            "Token is invalid or expired", found))
            /\ UNCHANGED tokens
       ELSE IF PastExpiry(tokens[accessToken].expires_at)
       THEN /\ tokens' = MapDelete(tokens, accessToken)
            /\ resp' = authenticateRequest(Fail("verify", r, "invalid_token",
                            "Token is invalid or expired", found))
       ELSE /\ resp' = authenticateRequest(Answer("verify", r, found, 0, 0, 0))
            /\ UNCHANGED tokens
  /\ UNCHANGED <<config, sessions, rpc, now, uuid, clients, codes, accessTokens,
                 refreshTokens, authCodes, timers, reqs, history>>

McpRevokeChoices == TokenIds \cup {NoToken}

(* a variant that reports a token it does not know as an error *)
RevokeStatusKnownOnly(token) ==
  IF token \in DOMAIN tokens THEN "ok" ELSE "invalid_request"

(* /oauth/revoke: 400 invalid_request without a token, 200 otherwise *)
RevokeStatus(token) ==
  IF token = NoToken THEN "invalid_request" ELSE "ok"

(* this.tokens.delete(token), then every record whose refresh_token is    *)
(* token                                                                  *)
TokensAfterRevoke(token) ==
  [t \in {x \in DOMAIN tokens \ {token} : tokens[x].refresh_token # token}
     |-> tokens[t]]

(* POST /oauth/revoke *)
revoke(token) ==
  /\ Ready
  /\ impl = "mcp"
  /\ LET found == {tokens[t] : t \in {x \in DOMAIN tokens :
                      x = token \/ tokens[x].refresh_token = token}}
     IN IF RevokeStatus(token) # "ok"
        THEN /\ resp' = Fail("revoke", [token |-> token], RevokeStatus(token),
                             "Missing token parameter", {})
             /\ UNCHANGED <<tokens, revoked>>
        ELSE /\ tokens' = TokensAfterRevoke(token)
             /\ revoked' = RevokedWith(token)
             /\ resp' = Answer("revoke", [token |-> token], found, 0, 0, 0)
  /\ UNCHANGED <<config, sessions, rpc, now, uuid, clients, codes, accessTokens,
                 refreshTokens, authCodes, timers, reqs, codeUses,
                 refreshUses, lineage, issuedAt>>

-----------------------------------------------------------------------------
Next ==
  \/ Respond
  \/ Tick
  \/ Jump
  \/ \E uris \in RegistrationUris : InMemory_registerClient(uris)
  \/ \E client \in PreRegisterParams : preRegister(client)
  \/ \E params \in AuthorizeParams : InMemory_authorize(params)
  \/ \E s \in Slots, p \in CodeGrantParams : InMemory_tokenRequest(s, p)
  \/ \E s \in Slots : challengeForAuthorizationCode(s)
  \/ \E s \in Slots : PkceCheck(s)
  \/ \E s \in Slots : exchangeAuthorizationCode(s)
  \/ \E p \in RefreshGrantParams : exchangeRefreshToken(p)
  \/ \E token \in TokenIds : verifyAccessToken(token)
  \/ bearerAuthWithoutToken
  \/ \E p \in RevokeParams : revokeToken(p)
  \/ \E uris \in RegistrationUris : OAuthProvider_registerClient(uris)
  \/ \E params \in McpAuthorizeParams : OAuthProvider_authorize(params)
  \/ \E code \in CodeIds : AuthCodeCleanup(code)
  \/ \E p \in McpCodeGrantParams : handleAuthorizationCodeGrant(p)
  \/ \E p \in McpRefreshGrantParams : handleRefreshTokenGrant(p)
  \/ \E p \in [client_id : Requesters, grant_type : OtherGrantTypes] :
       unsupportedGrantType(p)
  \/ \E token \in TokenIds : validateToken(token)
  \/ authenticateRequestWithoutToken
  \/ \E token \in McpRevokeChoices : revoke(token)

Spec == Init /\ [][Next]_vars

-----------------------------------------------------------------------------
(* Properties *)

IsCodeGrant(r) ==
  r.op = "token" /\ r.req.grant_type = "authorization_code"
IsRefreshGrant(r) ==
  r.op = "token" /\ r.req.grant_type = "refresh_token"

(* the response carries this OAuth error and no tokens *)
Refused(r, error) ==
  r.error = error /\ r.access_token = 0 /\ r.refresh_token = 0

(* the response carries a fresh token pair *)
IssuedTokens(r) ==
  r.error = "ok" /\ r.access_token # 0 /\ r.refresh_token # 0

(* the client that sent the request of response r *)
RequestClient(r) ==
  IF impl = "server" THEN r.req.client ELSE r.req.client_id

(* a grant presenting this refresh token would find it in these stores *)
RefreshStoredIn(refreshToken, serverStore, mcpStore) ==
  IF impl = "server"
  THEN refreshToken \in DOMAIN serverStore
  ELSE \E t \in DOMAIN mcpStore : mcpStore[t].refresh_token = refreshToken

RefreshStored(refreshToken) ==
  RefreshStoredIn(refreshToken, refreshTokens, tokens)

(* C1: each authorization code is exchanged successfully at most once;    *)
(* once an exchange of code c has returned tokens, the response to every  *)
(* later exchange presenting c is invalid_grant, carries no tokens and    *)
(* mints none.                                                            *)
C1_Step ==
  /\ \A c \in DOMAIN codeUses' : codeUses'[c] <= 1
  /\ (resp = NoResponse /\ IsCodeGrant(resp')) =>
       LET c == resp'.req.code IN
         (c \in DOMAIN codeUses /\ codeUses[c] >= 1) =>
            /\ Refused(resp', "invalid_grant")
            /\ uuid'.pairs = uuid.pairs
            /\ history' = history

C1_CodeExchangedAtMostOnce == [][C1_Step]_vars

(* a code that was exchanged is presented again and refused *)
C1_Witness ==
  /\ IsCodeGrant(resp)
  /\ resp.req.code \in DOMAIN codeUses
  /\ codeUses[resp.req.code] = 1
  /\ \E t \in DOMAIN lineage :
       /\ lineage[t].code = resp.req.code
       /\ lineage[t].client = RequestClient(resp)
  /\ resp.found = {}
  /\ Refused(resp, "invalid_grant")

(* C2: of two token requests in flight with the same valid authorization  *)
(* code, each running the challenge lookup, the PKCE check and the        *)
(* exchange as separate steps, at most one is issued tokens: a request    *)
(* that passed the challenge lookup before the other request's exchange   *)
(* consumed the code ends with invalid_grant and no tokens.               *)
C2_Step ==
  \A s \in Slots :
    (reqs[s].pc \in {"pkce", "exchange"} /\ reqs'[s].pc = "idle") =>
       LET c == reqs[s].code IN
         /\ IssuedTokens(resp') => codeUses[c] = 0 /\ codeUses'[c] = 1
         /\ codeUses[c] >= 1 =>
              /\ Refused(resp', "invalid_grant")
              /\ codeUses' = codeUses
              /\ accessTokens' = accessTokens
              /\ refreshTokens' = refreshTokens

C2_ConcurrentExchangeOnce == [][C2_Step]_vars

(* the loser of the race: it passed the lookup and the PKCE check while   *)
(* the code was stored, and its exchange found the code consumed          *)
C2_Witness ==
  /\ impl = "server"
  /\ IsCodeGrant(resp)
  /\ resp.req.pc = "exchange"
  /\ codeUses[resp.req.code] = 1
  /\ resp.found = {}
  /\ Refused(resp, "invalid_grant")

(* C3: a successful refresh grant presenting r returns a refresh token r' *)
(* never returned before (so r' # r), r is no longer stored and r' is;    *)
(* every later grant presenting r is refused with invalid_grant; the same *)
(* holds of r' in turn, so each refresh token is accepted at most once.   *)
C3_Step ==
  (resp = NoResponse /\ IsRefreshGrant(resp')) =>
     LET r == resp'.req.refresh_token IN
       /\ resp'.error = "ok" =>
            /\ IssuedTokens(resp')
            /\ resp'.refresh_token # r
            /\ resp'.refresh_token \notin DOMAIN refreshUses
            /\ refreshUses[r] = 0
            /\ refreshUses'[r] = 1
            /\ refreshUses'[resp'.refresh_token] = 0
            /\ RefreshStoredIn(resp'.refresh_token, refreshTokens', tokens')
            /\ ~RefreshStoredIn(r, refreshTokens', tokens')
       /\ (r \in DOMAIN refreshUses /\ refreshUses[r] >= 1) =>
            /\ Refused(resp', "invalid_grant")
            /\ uuid'.pairs = uuid.pairs
            /\ history' = history

C4_ConcurrentRefreshOnce ==
  /\ \A r \in DOMAIN refreshUses :
       /\ refreshUses[r] <= 1
       /\ refreshUses[r] = 1 => ~RefreshStored(r)
  /\ IsRefreshGrant(resp) =>
       /\ resp.error = "ok" =>
            /\ refreshUses[resp.req.refresh_token] = 1
            /\ Cardinality({t \in DOMAIN lineage : t > resp.req.refresh_token
                 /\ t \in RefreshIds /\ RefreshStored(t)
                 /\ lineage[t] = lineage[resp.req.refresh_token]}) <= 1
       /\ resp.found = {} => Refused(resp, "invalid_grant")

(* the second of two grants by the token's own client on the same refresh *)
(* token                                                                  *)
C4_Witness ==
  /\ IsRefreshGrant(resp)
  /\ resp.req.refresh_token \in DOMAIN refreshUses
  /\ refreshUses[resp.req.refresh_token] = 1
  /\ RequestClient(resp) = lineage[resp.req.refresh_token].client
  /\ Refused(resp, "invalid_grant")

(* the stored record the request of response r presented *)
Presented(r) == CHOOSE x \in r.found : TRUE

(* the challenge a verifier stands for under a challenge method *)
RecomputedChallenge(verifier, method) ==
  IF method = "plain" THEN verifier ELSE Sha256Base64Url(verifier)

StoredChallenge(record) ==
  IF impl = "server" THEN record.codeChallenge ELSE record.code_challenge
StoredMethod(record) ==
  IF impl = "server" THEN "S256" ELSE record.code_challenge_method

PkceMessages ==
  {"code_verifier does not match the challenge", "code_verifier required",
   "Invalid code_verifier"}

(* C5: an authorization-code exchange succeeds only if the challenge      *)
(* recomputed from the presented code_verifier (its S256 hash, or the     *)
(* verifier itself for plain) equals the code_challenge stored with the   *)
(* code, it is not refused over PKCE when they are equal, and when they   *)
(* differ it is refused with invalid_grant and no tokens.                 *)
C5_PkceDecidesExchange ==
  (IsCodeGrant(resp) /\ resp.found # {}) =>
     LET record == Presented(resp)
         matches == RecomputedChallenge(resp.req.code_verifier,
                                        StoredMethod(record))
                      = StoredChallenge(record)
     IN /\ resp.error = "ok" => matches
        /\ ~matches => Refused(resp, "invalid_grant")
        /\ (matches /\ StoredMethod(record) \in {"S256", "plain"}) =>
              resp.message \notin PkceMessages

RequestedRedirect(r) ==
  IF impl = "server" THEN r.req.redirectUri ELSE r.req.redirect_uri

(* C6: an authorization request whose redirect_uri is not one of the      *)
(* client's registered redirect_uris is refused with invalid_request and  *)
(* mints no code, and every stored code's redirect_uri is one of its      *)
(* client's registered redirect_uris.                                     *)
C6_RegisteredRedirectOnly ==
  /\ \A c \in DOMAIN codes :
       codes[c].redirectUri \in clients[codes[c].clientId].redirect_uris
  /\ \A c \in DOMAIN authCodes :
       authCodes[c].redirect_uri
         \in clients[authCodes[c].client_id].redirect_uris
  /\ (resp.op = "authorize" /\ resp.found # {}) =>
       (RequestedRedirect(resp) \notin Presented(resp).redirect_uris =>
          resp.error = "invalid_request" /\ resp.code = 0)

(* the scopes a refresh grant asks for and the scopes its token holds *)
RequestedScopes(r) ==
  IF impl = "server" THEN r.req.scopes ELSE McpScopeSet(r.req.scope)
HeldScopes(record) ==
  IF impl = "server" THEN record.scopes ELSE McpScopeSet(record.scope)

(* every stored token holds no scope its authorization code did not hold *)
ScopesWithinOrigin ==
  /\ \A t \in DOMAIN accessTokens :
       accessTokens[t].scopes \subseteq lineage[t].scopes
  /\ \A t \in DOMAIN refreshTokens :
       refreshTokens[t].scopes \subseteq lineage[t].scopes
  /\ \A t \in DOMAIN tokens :
       /\ McpScopeSet(tokens[t].scope) \subseteq lineage[t].scopes
       /\ lineage[tokens[t].refresh_token] = lineage[t]

Presents(r) == r.op \in {"token", "verify"} /\ r.found # {}

(* the expires_at of the record the request presented *)
PresentedDeadline(r) ==
  IF impl = "server" THEN Presented(r).expiresAt
  ELSE IF IsRefreshGrant(r) THEN Presented(r).refresh_token_expires_at
  ELSE Presented(r).expires_at

ExpiryError(r) == IF r.op = "verify" THEN "invalid_token" ELSE "invalid_grant"

(* the request was refused because the record it presented had expired *)
RefusedAsExpired(r) ==
  /\ Refused(r, ExpiryError(r))
  /\ \/ r.message \in {"Authorization code expired", "Refresh token expired",
                       "Access token expired"}
     \/ impl = "mcp" /\ r.op = "verify"
     \/ /\ impl = "server"
        /\ IsCodeGrant(r)
        /\ r.req.pc = "challenge"
        /\ Presented(r).clientId = r.req.client

AccessStore == IF impl = "server" THEN accessTokens ELSE tokens

AccessDeadline(record) ==
  IF impl = "server" THEN record.expiresAt ELSE record.expires_at

(* C9: bearer verification of a token that is not in the access-token     *)
(* store, or whose record has expired, answers invalid_token; the call    *)
(* that finds the record expired removes it; a token that has left the    *)
(* store is never in it again.                                            *)
C9_Step ==
  /\ (resp = NoResponse /\ resp'.op = "verify") =>
       LET t == resp'.req.token IN
         /\ t \notin DOMAIN AccessStore =>
              Refused(resp', "invalid_token") /\ AccessStore' = AccessStore
         /\ (t \in DOMAIN AccessStore
               /\ now > AccessDeadline(AccessStore[t])) =>
              /\ Refused(resp', "invalid_token")
              /\ t \notin DOMAIN AccessStore'
  /\ \A t \in DOMAIN lineage :
       t \notin DOMAIN AccessStore => t \notin DOMAIN AccessStore'

C9_ExpiredTokenEvicted == [][C9_Step]_vars

(* verification found the record expired, refused it and removed it *)
C9_Witness ==
  /\ resp.op = "verify"
  /\ resp.found # {}
  /\ now > AccessDeadline(Presented(resp))
  /\ Refused(resp, "invalid_token")
  /\ resp.req.token \notin DOMAIN AccessStore

C11_Step ==
  (resp = NoResponse /\ resp'.op = "authorize" /\ impl = "server"
     /\ resp'.found # {} /\ strictResource
     /\ resp'.req.resource \notin {None, Canonical}) =>
       /\ resp'.error = "invalid_request"
       /\ resp'.code = 0
       /\ codes' = codes
       /\ uuid' = uuid

C11_StrictResourceAtAuthorize == [][C11_Step]_vars

(* a registered client asked for another resource with its registered     *)
(* redirect_uri and was refused over the resource                         *)
C11_Witness ==
  /\ impl = "server"
  /\ strictResource
  /\ resp.op = "authorize"
  /\ resp.found # {}
  /\ resp.req.resource = Other
  /\ resp.message = "Invalid resource parameter"
  /\ resp.error = "invalid_request"
  /\ codes = Empty

(* C12: an authorization request whose client_id is not in the client     *)
(* registry is refused with invalid_client and mints no code: the         *)
(* response carries none and the code stores hold none for that client.   *)
C12_UnknownClientRefused ==
  (resp.op = "authorize" /\ resp.req.client_id \notin DOMAIN clients) =>
     /\ resp.error = "invalid_client"
     /\ resp.code = 0
     /\ \A c \in DOMAIN codes : codes[c].clientId # resp.req.client_id
     /\ \A c \in DOMAIN authCodes :
          authCodes[c].client_id # resp.req.client_id

(* C13: a token that was issued and then revoked is in neither the        *)
(* access-token nor the refresh-token store from the moment the revoke    *)
(* call completes: every later bearer verification of it answers          *)
(* invalid_token and every later refresh grant presenting it answers      *)
(* invalid_grant, whether it was an access or a refresh token.            *)
C13_RevokedTokenDead ==
  /\ \A t \in revoked : t \notin DOMAIN AccessStore /\ ~RefreshStored(t)
  /\ (resp.op = "verify" /\ resp.req.token \in revoked) =>
        Refused(resp, "invalid_token")
  /\ (IsRefreshGrant(resp) /\ resp.req.refresh_token \in revoked) =>
        Refused(resp, "invalid_grant")

(* a refresh token that was live when it was revoked is presented to a    *)
(* refresh grant by its own client and refused                            *)
C13_Witness ==
  /\ IsRefreshGrant(resp)
  /\ resp.req.refresh_token \in revoked
  /\ resp.req.refresh_token \in DOMAIN refreshUses
  /\ refreshUses[resp.req.refresh_token] = 0
  /\ RequestClient(resp) = lineage[resp.req.refresh_token].client
  /\ Refused(resp, "invalid_grant")

(* C14: revoking a token string, live, unknown or already revoked, is     *)
(* answered without an error, and revoking the same string again in the   *)
(* resulting state changes no store.                                      *)
C14_Step ==
  \A t \in TokenIds :
    (resp = NoResponse /\ resp'.op = "revoke" /\ resp'.req.token = t) =>
       /\ resp'.error = "ok"
       /\ AccessTokensAfterRevoke(t)' = accessTokens'
       /\ RefreshTokensAfterRevoke(t)' = refreshTokens'
       /\ TokensAfterRevoke(t)' = tokens'
       /\ UNCHANGED <<codes, authCodes, clients>>

C14_RevokeIdempotent == [][C14_Step]_vars

(* a second revocation of a token that the first one removed: no token   *)
(* was rotated and none has expired, so only a revocation removed it      *)
C14_Witness ==
  /\ resp.op = "revoke"
  /\ resp.req.token \in revoked
  /\ resp.found = {}
  /\ resp.error = "ok"
  /\ refreshUses # Empty
  /\ \A t \in DOMAIN refreshUses : refreshUses[t] = 0
  /\ now = 0

(* C15: every registration stores a new client under a client_id that no  *)
(* client of the registry had, with the metadata of the request, and      *)
(* leaves every client already registered as it was, also when a client   *)
(* with the same metadata is already registered.                          *)
C15_Step ==
  (resp = NoResponse /\ resp'.op = "register") =>
     LET client == Presented(resp') IN
       /\ resp'.error = "ok"
       /\ client.client_id \notin DOMAIN clients
       /\ DOMAIN clients' = DOMAIN clients \cup {client.client_id}
       /\ clients'[client.client_id] = client
       /\ client.redirect_uris = resp'.req.redirect_uris
       /\ \A c \in DOMAIN clients : clients'[c] = clients[c]

C15_RegistrationCreatesNewClient == [][C15_Step]_vars

(* a second registration with the metadata of the first: two clients *)
C15_Witness ==
  /\ resp.op = "register"
  /\ \E c \in DOMAIN clients :
       /\ c # Presented(resp).client_id
       /\ c # PreSeededId
       /\ clients[c].redirect_uris = Presented(resp).redirect_uris
  /\ clients[Presented(resp).client_id] = Presented(resp)

(* C16: a client record, once in the registry, is never changed or        *)
(* removed by any operation.                                              *)
C16_Step ==
  \A c \in DOMAIN clients : c \in DOMAIN clients' /\ clients'[c] = clients[c]

C16_ClientRecordsImmutable == [][C16_Step]_vars

(* C17: a token request whose grant_type is neither authorization_code    *)
(* nor refresh_token is answered unsupported_grant_type, with no tokens.  *)
C17_UnsupportedGrantType ==
  (resp.op = "token"
     /\ resp.req.grant_type \notin {"authorization_code", "refresh_token"}) =>
        Refused(resp, "unsupported_grant_type")

(* the deadline stored with a code *)
CodeDeadlines ==
  IF impl = "server"
  THEN [c \in DOMAIN codes |-> codes[c].expiresAt]
  ELSE [c \in DOMAIN authCodes |-> authCodes[c].expires_at]

(* the lifetime each provider gives its authorization codes *)
CodeLifetime == IF impl = "server" THEN AUTH_CODE_TTL ELSE AUTH_CODE_EXPIRY

PresentedByAnother(r) ==
  /\ impl = "server"
  /\ IsCodeGrant(r) \/ IsRefreshGrant(r)
  /\ \E record \in r.found : record.clientId # r.req.client

(* C19: a code exchange or a refresh grant presented by a client whose id *)
(* differs from the client_id stored with the code or refresh token is    *)
(* refused with invalid_grant and yields no tokens, and every stored      *)
(* access token and refresh token carries the client_id of the            *)
(* authorization code it derives from.                                    *)
C19_TokensOnlyToOwner ==
  /\ PresentedByAnother(resp) => Refused(resp, "invalid_grant")
  /\ \A t \in DOMAIN accessTokens :
       t \in DOMAIN lineage /\ accessTokens[t].clientId = lineage[t].client
  /\ \A t \in DOMAIN refreshTokens :
       t \in DOMAIN lineage /\ refreshTokens[t].clientId = lineage[t].client

(* a stored, unexpired refresh token is presented by another registered   *)
(* client and refused                                                     *)
C19_Witness ==
  /\ PresentedByAnother(resp)
  /\ IsRefreshGrant(resp)
  /\ resp.req.client \in DOMAIN clients
  /\ \A record \in resp.found : ~IsExpired(record)
  /\ Refused(resp, "invalid_grant")
  /\ refreshTokens # Empty

(* the redirect_uri stored with the code that the grant of r presented *)
StoredRedirects(r) ==
  IF impl = "server" THEN {record.redirectUri : record \in r.found}
  ELSE {record.redirect_uri : record \in r.found}

(* C20: a code exchange that supplies a redirect_uri succeeds only if it  *)
(* equals the redirect_uri stored with the code; with a differing one it  *)
(* is refused with invalid_grant and issues no tokens.                    *)
C20_RedirectMustMatch ==
  (/\ IsCodeGrant(resp)
   /\ resp.req.redirect_uri # None
   /\ \E stored \in StoredRedirects(resp) : stored # resp.req.redirect_uri)
  => Refused(resp, "invalid_grant")

(* the step evicts access token t after its deadline, during a bearer     *)
(* verification of t                                                      *)
EvictedAfterExpiry(t) ==
  /\ resp'.op = "verify"
  /\ resp'.req.token = t
  /\ now > AccessDeadline(AccessStore[t])

(* the step is a revocation asked for the token string t *)
RevokedExplicitly(t) ==
  resp'.op = "revoke" /\ resp'.req.token = t

(* the step redeems or revokes the refresh token that OAuthProvider keeps *)
(* in the record of access token t                                        *)
PairedRefreshTokenSpent(t) ==
  /\ impl = "mcp"
  /\ \/ RevokedExplicitly(tokens[t].refresh_token)
     \/ /\ IsRefreshGrant(resp')
        /\ IssuedTokens(resp')
        /\ resp'.req.refresh_token = tokens[t].refresh_token

(* the access-token store after the step *)
AccessStoreAfter == IF impl = "server" THEN accessTokens' ELSE tokens'

C21_StepAsStated ==
  \A t \in DOMAIN AccessStore :
    IF t \in DOMAIN AccessStoreAfter
    THEN AccessStoreAfter[t] = AccessStore[t]
    ELSE EvictedAfterExpiry(t) \/ RevokedExplicitly(t)

(* C21 as stated: a stored access-token record is never modified, and it  *)
(* leaves the store only by eviction after its expiry or by a revocation  *)
(* of that token.                                                         *)
C21_RemovedOnlyByExpiryOrRevocation == [][C21_StepAsStated]_vars

C21_Step ==
  \A t \in DOMAIN AccessStore :
    IF t \in DOMAIN AccessStoreAfter
    THEN AccessStoreAfter[t] = AccessStore[t]
    ELSE \/ EvictedAfterExpiry(t)
         \/ RevokedExplicitly(t)
         \/ PairedRefreshTokenSpent(t)

(* C21 amended: a stored access-token record is never modified; in        *)
(* InMemoryOAuthProvider it leaves the store only by eviction after its   *)
(* expiry or by a revocation of that token; in OAuthProvider, where the   *)
(* access token and its refresh token are one record, it also leaves the  *)
(* store when its refresh token is redeemed by a successful refresh grant *)
(* or is revoked.                                                         *)
C21_AccessTokenFrame == [][C21_Step]_vars

(* a code exchange or refresh grant has just issued tokens while an       *)
(* earlier access token stays stored, unaltered                           *)
C21_Witness ==
  /\ resp.op = "token"
  /\ IssuedTokens(resp)
  /\ \E t \in DOMAIN AccessStore : t # resp.access_token

(* the binding of a stored token record: client, scopes and resource *)
Binding(record) ==
  IF impl = "server"
  THEN [client |-> record.clientId, scopes |-> record.scopes,
        resource |-> record.resource]
  ELSE [client |-> record.client_id, scopes |-> McpScopeSet(record.scope),
        resource |-> None]

(* the records stored for the token pair that response r returned *)
NewAccessRecord(r) == AccessStore[r.access_token]
NewRefreshRecord(r) ==
  IF impl = "server" THEN refreshTokens[r.refresh_token]
  ELSE tokens[r.access_token]

(* binding new carries binding old forward for the request of r *)
CarriedForward(new, old, r) ==
  /\ new.client = old.client
  /\ new.resource = old.resource
  /\ \/ new.scopes = old.scopes
     \/ new.scopes = RequestedScopes(r) /\ new.scopes \subseteq old.scopes

(* C22: after a successful refresh-token grant the new access token and   *)
(* the new refresh token have the client and the resource of the          *)
(* presented refresh token, and its scopes or the requested subset of     *)
(* them.                                                                  *)
C22_BindingCarriedForward ==
  (IsRefreshGrant(resp) /\ IssuedTokens(resp)) =>
     /\ CarriedForward(Binding(NewAccessRecord(resp)),
                       Binding(Presented(resp)), resp)
     /\ CarriedForward(Binding(NewRefreshRecord(resp)),
                       Binding(Presented(resp)), resp)

(* the authorization-code store of the provider *)
CodeStore == IF impl = "server" THEN codes ELSE authCodes

(* C23: a code exchange that presents a stored authorization code after   *)
(* its deadline is refused with invalid_grant and that call removes the   *)
(* code from the store, whichever client presents it and whatever         *)
(* redirect_uri it names (the expiry check comes first).                  *)
C23_ExpiredCodeRemoved ==
  (IsCodeGrant(resp) /\ resp.found # {} /\ now > PresentedDeadline(resp)) =>
     /\ Refused(resp, "invalid_grant")
     /\ resp.req.code \notin DOMAIN CodeStore

(* C24: a refresh grant in which the client a refresh token was issued to *)
(* presents it after its deadline is refused with invalid_grant, and that *)
(* call removes the refresh token from the store.                         *)
C24_ExpiredRefreshTokenRemoved ==
  (/\ IsRefreshGrant(resp)
   /\ resp.found # {}
   /\ Binding(Presented(resp)).client = RequestClient(resp)
   /\ now > PresentedDeadline(resp))
  => /\ Refused(resp, "invalid_grant")
     /\ ~RefreshStored(resp.req.refresh_token)

(* the bearer token of the protected request of r is stored, unexpired    *)
(* and, for InMemoryOAuthProvider, accepted for the resource              *)
TokenVerifies(r) ==
  /\ r.found # {}
  /\ now <= AccessDeadline(Presented(r))
  /\ impl = "server" => ResourceAccepted(Presented(r))

(* C25: the handler of a protected endpoint runs only for a request whose *)
(* bearer token currently verifies; a request with a missing, unknown or  *)
(* expired token is answered 401 with a WWW-Authenticate: Bearer response *)
(* header and does not reach the handler.                                 *)
C25_ProtectedEndpoints ==
  resp.op \in {"verify", "bearer"} =>
     /\ resp.handler <=> TokenVerifies(resp)
     /\ ~TokenVerifies(resp) =>
          /\ resp.status = 401
          /\ resp.www_authenticate = "Bearer"

(* the code_challenge and the resource of the authorization request of r *)
RequestedChallenge(r) ==
  IF impl = "server" THEN ServerChallenge ELSE r.req.pkce[1]
RequestedMethod(r) ==
  IF impl = "server" THEN "S256" ELSE r.req.pkce[2]
ResourceOf(req) ==
  IF impl = "server" THEN req.resource ELSE None

(* the challenge methods a code can be redeemed under (S256 when absent) *)
SupportedMethods == {"S256", "plain", None}

(* an authorization request of a registered client with a registered      *)
(* redirect_uri and a code_challenge, otherwise well-formed               *)
ValidAuthorization(r) ==
  /\ r.op = "authorize"
  /\ r.found # {}
  /\ RequestedRedirect(r) \in Presented(r).redirect_uris
  /\ RequestedChallenge(r) # None
  /\ RequestedMethod(r) \in SupportedMethods
  /\ ValidResource(ResourceOf(r.req))

(* an exchange of a stored, unexpired code by the client it was issued    *)
(* to, with the verifier of its challenge, otherwise well-formed          *)
MatchingExchange(r) ==
  /\ IsCodeGrant(r)
  /\ r.found # {}
  /\ now <= PresentedDeadline(r)
  /\ RequestClient(r) = IF impl = "server" THEN Presented(r).clientId
                        ELSE Presented(r).client_id
  /\ StoredChallenge(Presented(r)) # None
  /\ StoredMethod(Presented(r)) \in SupportedMethods
  /\ RecomputedChallenge(r.req.code_verifier, StoredMethod(Presented(r)))
       = StoredChallenge(Presented(r))
  /\ r.req.redirect_uri \in {None, IF impl = "server"
                                   THEN Presented(r).redirectUri
                                   ELSE Presented(r).redirect_uri}
  /\ ValidResource(ResourceOf(r.req))

(* C26: authorization is granted without further conditions: an           *)
(* authorization request of a registered client with one of its           *)
(* registered redirect_uris and a code_challenge yields a stored code;    *)
(* an exchange of that code before its deadline by that client with the   *)
(* matching verifier returns an access/refresh token pair that is stored; *)
(* and bearer verification of a stored access token before its deadline   *)
(* succeeds.                                                              *)
C26_AutoGrant ==
  /\ ValidAuthorization(resp) =>
       /\ resp.error = "ok"
       /\ resp.code \in DOMAIN CodeStore
  /\ MatchingExchange(resp) =>
       /\ IssuedTokens(resp)
       /\ resp.access_token \in DOMAIN AccessStore
       /\ RefreshStored(resp.refresh_token)
  /\ (resp.op = "verify" /\ resp.found # {}
        /\ now <= AccessDeadline(Presented(resp))) =>
       resp.error = "ok"

(* the access token of a code exchanged at the time it was minted passes  *)
(* bearer verification at that same time                                  *)
C26_Witness ==
  /\ resp.op = "verify"
  /\ resp.error = "ok"
  /\ resp.req.token \in DOMAIN lineage
  /\ issuedAt[lineage[resp.req.token].code] = now
  /\ refreshUses = [t \in DOMAIN refreshUses |-> 0]

(* the refresh token strings the provider has stored *)
RefreshStrings ==
  IF impl = "server" THEN DOMAIN refreshTokens
  ELSE {tokens[t].refresh_token : t \in DOMAIN tokens}

C27_Step ==
  (resp = NoResponse /\ resp'.op = "token" /\ IssuedTokens(resp')) =>
     /\ resp'.access_token # resp'.refresh_token
     /\ (DOMAIN AccessStore)' \ DOMAIN AccessStore = {resp'.access_token}
     /\ RefreshStrings' \ RefreshStrings = {resp'.refresh_token}
     /\ (Binding(NewAccessRecord(resp)) = Binding(NewRefreshRecord(resp)))'

C28_ChallengeRequired ==
  /\ \A c \in DOMAIN CodeStore : StoredChallenge(CodeStore[c]) # None
  /\ (resp.op = "authorize" /\ RequestedChallenge(resp) = None) =>
        resp.error # "ok" /\ resp.code = 0
  /\ (IsCodeGrant(resp) /\ IssuedTokens(resp)) =>
        StoredChallenge(Presented(resp)) # None

(* C29: in InMemoryOAuthProvider with strictResource on, every stored     *)
(* authorization code, access token and refresh token is bound to the     *)
(* canonical resource, and no verification fails with 'Token not issued   *)
(* for this resource'.                                                    *)
C29_StrictStoresCanonical ==
  (impl = "server" /\ strictResource) =>
     /\ \A c \in DOMAIN codes : codes[c].resource = Canonical
     /\ \A t \in DOMAIN accessTokens : accessTokens[t].resource = Canonical
     /\ \A t \in DOMAIN refreshTokens : refreshTokens[t].resource = Canonical
     /\ resp.message # "Token not issued for this resource"

(* in strict mode, with clients that name resources in their requests, a  *)
(* token obtained by a refresh grant verifies                             *)
C29_Witness ==
  /\ impl = "server"
  /\ strictResource
  /\ workload = "resource"
  /\ resp.op = "verify"
  /\ resp.error = "ok"
  /\ Presented(resp).resource = Canonical
  /\ \E t \in DOMAIN refreshUses : refreshUses[t] > 0

(* the step refuses a token request that presented a stored code or       *)
(* refresh token before its deadline                                      *)
RefusesUnexpired ==
  /\ resp = NoResponse
  /\ resp'.op = "token"
  /\ resp'.error # "ok"
  /\ resp'.found # {}
  /\ (now <= PresentedDeadline(resp))'

C30_Step ==
  RefusesUnexpired =>
    UNCHANGED <<codes, authCodes, accessTokens, refreshTokens, tokens>>

(* C30: a token request that presents an unexpired code or refresh token  *)
(* and is refused (wrong client, redirect_uri mismatch, PKCE mismatch,    *)
(* scope escalation, invalid resource) changes none of the code, access   *)
(* token and refresh token stores: the code or refresh token is still     *)
(* there for a later correct request.                                     *)
C30_RefusalKeepsStores == [][C30_Step]_vars

(* a code exchange was refused over PKCE or the client and the unexpired  *)
(* code is still stored                                                   *)
C30_Witness ==
  /\ IsCodeGrant(resp)
  /\ Refused(resp, "invalid_grant")
  /\ resp.found # {}
  /\ now <= PresentedDeadline(resp)
  /\ resp.req.code \in DOMAIN CodeStore
  /\ CodeStore[resp.req.code] = Presented(resp)

(* the deadline of stored refresh token t *)
RefreshDeadline(t) ==
  IF impl = "server" THEN refreshTokens[t].expiresAt
  ELSE LET holder == CHOOSE a \in DOMAIN tokens : tokens[a].refresh_token = t
       IN tokens[holder].refresh_token_expires_at

(* a refresh grant by the client the stored, unexpired refresh token was  *)
(* issued to, asking for scopes it holds and an acceptable resource       *)
ValidRefresh(r) ==
  /\ IsRefreshGrant(r)
  /\ r.found # {}
  /\ now <= PresentedDeadline(r)
  /\ Binding(Presented(r)).client = RequestClient(r)
  /\ RequestedScopes(r) \subseteq HeldScopes(Presented(r))
  /\ ValidResource(ResourceOf(r.req))

C31_Step ==
  /\ ValidRefresh(resp)' => IssuedTokens(resp')
  /\ \A t \in RefreshStrings :
       (now <= RefreshDeadline(t) /\ t \notin RefreshStrings') =>
          \/ resp'.op = "revoke"
          \/ /\ IsRefreshGrant(resp')
             /\ IssuedTokens(resp')
             /\ resp'.req.refresh_token = t

(* C31: an unexpired refresh token stays stored until it is redeemed or   *)
(* revoked, whatever happens to the access token issued with it (its      *)
(* expiry and its eviction by the bearer verifier included), and a        *)
(* refresh grant in which its client presents it is accepted.             *)
C31_RefreshOutlivesAccessToken == [][C31_Step]_vars

(* the step answers a revocation of token string t *)
Revokes(t) ==
  resp = NoResponse /\ resp'.op = "revoke" /\ resp'.error = "ok"
    /\ resp'.req.token = t

(* the step leaves every record of the map that is not stored under a key *)
(* in gone as it was                                                      *)
KeptExcept(before, after, gone) ==
  \A k \in DOMAIN before \ gone : k \in DOMAIN after /\ after[k] = before[k]

C32_StepAsStated ==
  \A t \in TokenIds : Revokes(t) =>
    /\ UNCHANGED <<codes, authCodes>>
    /\ KeptExcept(accessTokens, accessTokens', {t})
    /\ KeptExcept(refreshTokens, refreshTokens', {t})
    /\ KeptExcept(tokens, tokens', {t})
    /\ RefreshStrings \ {t} \subseteq RefreshStrings'

(* C32 as stated: a revocation of t removes at most the entry of t; every *)
(* other code, access token and refresh token, the token issued in the    *)
(* same pair as t included, stays stored as it was.                       *)
C32_RevokeRemovesOnlyThatToken == [][C32_StepAsStated]_vars

(* the records of OAuthProvider that hold t as access or refresh token *)
PairOf(t) ==
  {a \in DOMAIN tokens : a = t \/ tokens[a].refresh_token = t}

C32_Step ==
  \A t \in TokenIds : Revokes(t) =>
    /\ UNCHANGED <<codes, authCodes>>
    /\ KeptExcept(accessTokens, accessTokens', {t})
    /\ KeptExcept(refreshTokens, refreshTokens', {t})
    /\ KeptExcept(tokens, tokens', PairOf(t))

(* C32 amended: a revocation of t in InMemoryOAuthProvider removes at     *)
(* most the entry of t, and the token issued in the same pair stays       *)
(* stored; in OAuthProvider it removes at most the one record that holds  *)
(* t, and with it both tokens of that pair; every authorization code and  *)
(* every token of another pair stays stored as it was.                    *)
C32_RevokeRemovesOnlyThatPair == [][C32_Step]_vars

(* a stored token was revoked and another access token is still stored *)
C32_Witness ==
  /\ resp.op = "revoke"
  /\ resp.error = "ok"
  /\ resp.found # {}
  /\ resp.req.token \notin DOMAIN AccessStore
  /\ resp.req.token \notin RefreshStrings
  /\ DOMAIN AccessStore # {}

(* C33: a revocation removes the presented token whoever asks for it: the *)
(* client of the request is not compared with the client the token was    *)
(* issued to, so a token of client X is gone after registered client Y    *)
(* has asked for its revocation.                                          *)
C33_RevokeIgnoresClient ==
  (resp.op = "revoke" /\ resp.error = "ok") =>
     /\ resp.req.token \notin DOMAIN AccessStore
     /\ resp.req.token \notin RefreshStrings

(* registered client Y asked for the revocation of a stored token of      *)
(* client X, and it is gone                                               *)
C33_Witness ==
  /\ impl = "server"
  /\ resp.op = "revoke"
  /\ resp.error = "ok"
  /\ resp.req.client \in DOMAIN clients
  /\ \E record \in resp.found :
       /\ record.clientId # resp.req.client
       /\ record.clientId \in DOMAIN clients
  /\ resp.req.token \notin DOMAIN accessTokens
  /\ resp.req.token \notin DOMAIN refreshTokens

-----------------------------------------------------------------------------
(* The transports of packages/server (createServer).                       *)
(*                                                                         *)
(* transports maps a session id to its transport; the model keeps the kind *)
(* of the transport.  The SDK's transports are modelled by what the        *)
(* handlers rely on: a StreamableHTTPServerTransport draws its session id  *)
(* and calls onsessioninitialized when it accepts an initialize request,   *)
(* and calls onclose when a DELETE request or close() ends it; an          *)
(* SSEServerTransport draws its session id when it is constructed.         *)
(* server.close() makes the server accept no further request.              *)

MaxSessions == 3

oauth == <<config, now, uuid, clients, stores, timers, reqs, resp, history>>

StreamableHTTPServerTransport == "StreamableHTTPServerTransport"
SSEServerTransport == "SSEServerTransport"

Methods == {"POST", "GET", "DELETE"}

(* a session id no transport of this server ever drew *)
Unissued == MaxSessions + 1

(* the session ids a client can present: none, one it was given, or one    *)
(* of its own making                                                       *)
PresentedSessionIds == {NoSession, Unissued} \cup (1..nextSession)

(* transports[sessionId]: undefined (None) without an entry *)
TransportOf(sessionId) ==
  IF sessionId \in DOMAIN transports THEN transports[sessionId] ELSE None

InstanceOfAny(transport, class) == transport # None
InstanceOf(transport, class) == transport = class

(* a request: its route and method, the session id it carries, and        *)
(* isInitializeRequest(req.body)                                          *)
Request(route, method, sessionId, initialize) ==
  [route |-> route, method |-> method, sessionId |-> sessionId,
   initialize |-> initialize]

(* An answer: the request, transports[sessionId] as the handler found it, *)
(* the status, the transport method the handler invoked and the kind of   *)
(* transport it invoked it on, and the kind of transport it constructed.  *)
Handled(req, status, invoked, on, created) ==
  req @@ [found |-> TransportOf(req.sessionId), status |-> status,
          invoked |-> invoked, on |-> on, created |-> created]

(* res.status(400).json(...) and return *)
BadRequest(req) == Handled(req, 400, None, None, None)

(* onsessioninitialized: transports[sessionId] = transport *)
onsessioninitialized(sessionId, transport) ==
  MapSet(transports, sessionId, transport)

(* transport.onclose / res.on("close"): delete transports[sid] *)
TransportsKeptOnClose(sid) == transports
onclose(sid) == MapDelete(transports, sid)

(* stop(): every entry is closed and deleted *)
TransportsKeptOnStop == transports
TransportsAfterStop ==
  [sessionId \in {} |-> transports[sessionId]]

(* app.all('/mcp', mcpHandler) *)
mcpHandler ==
  /\ running
  /\ \E sessionId \in PresentedSessionIds, method \in Methods,
        isInitializeRequest \in BOOLEAN, accepted \in BOOLEAN :
       LET existingTransport == TransportOf(sessionId)
           req == Request("/mcp", method, sessionId, isInitializeRequest)
       IN
       IF sessionId # NoSession /\ existingTransport # None
       THEN IF InstanceOf(existingTransport, StreamableHTTPServerTransport)
            THEN (* transport.handleRequest on the existing transport; a  *)
                 (* DELETE request ends the session                       *)
                 /\ http' = Handled(req, 200, "handleRequest",
                                    existingTransport, None)
                 /\ IF method = "DELETE"
                    THEN /\ transports' = onclose(sessionId)
                         /\ open' = open \ {sessionId}
                    ELSE UNCHANGED <<transports, open>>
                 /\ UNCHANGED nextSession
            ELSE /\ http' = BadRequest(req)
                 /\ UNCHANGED <<transports, open, nextSession>>
       ELSE IF sessionId = NoSession /\ method = "POST" /\ isInitializeRequest
            THEN (* a new transport handles the request; when it accepts   *)
                 (* the initialize request the session begins              *)
                 /\ nextSession < MaxSessions
                 /\ IF accepted
                    THEN LET sid == nextSession + 1 IN
                         /\ nextSession' = sid
                         /\ transports' =
                              onsessioninitialized(
                                sid, StreamableHTTPServerTransport)
                         /\ open' = open \cup {sid}
                         /\ http' = Handled(req, 200, "handleRequest",
                                            StreamableHTTPServerTransport,
                                            StreamableHTTPServerTransport)
                    ELSE /\ http' = Handled(req, 406, "handleRequest",
                                            StreamableHTTPServerTransport,
                                            StreamableHTTPServerTransport)
                         /\ UNCHANGED <<transports, open, nextSession>>
            ELSE /\ http' = BadRequest(req)
                 /\ UNCHANGED <<transports, open, nextSession>>
  /\ UNCHANGED <<running, oauth, rpc>>

(* app.get('/sse', sseHandler) *)
sseHandler ==
  /\ running
  /\ nextSession < MaxSessions
  /\ LET sid == nextSession + 1 IN
       /\ nextSession' = sid
       /\ transports' = MapSet(transports, sid, SSEServerTransport)
       /\ open' = open \cup {sid}
       /\ http' = Handled(Request("/sse", "GET", NoSession, FALSE), 200,
                          None, None, SSEServerTransport)
  /\ UNCHANGED <<running, oauth, rpc>>

(* the client ends the event stream of /sse: res emits "close" *)
resClose ==
  /\ running
  /\ \E sid \in open :
       /\ TransportOf(sid) = SSEServerTransport
       /\ transports' = onclose(sid)
       /\ open' = open \ {sid}
  /\ http' = NoHttp
  /\ UNCHANGED <<nextSession, running, oauth, rpc>>

(* app.post('/messages', sseMessagesHandler) *)
sseMessagesHandler ==
  /\ running
  /\ \E sessionId \in PresentedSessionIds :
       LET existingTransport == TransportOf(sessionId)
           req == Request("/messages", "POST", sessionId, FALSE)
       IN
       IF InstanceOf(existingTransport, SSEServerTransport)
       THEN http' = Handled(req, 202, "handlePostMessage",
                            existingTransport, None)
       ELSE http' = BadRequest(req)
  /\ UNCHANGED <<transports, open, nextSession, running, oauth, rpc>>

(* stop() *)
stop ==
  /\ running
  /\ running' = FALSE
  /\ open' = open \ DOMAIN transports
  /\ transports' = TransportsAfterStop
  /\ http' = NoHttp
  /\ UNCHANGED <<nextSession, oauth, rpc>>

(* createServer of packages/server: the OAuth provider stays as built *)
InitSessions ==
  /\ impl = "server"
  /\ workload = "clients"
  /\ strictResource = TRUE
  /\ OAuthAtRest
  /\ SessionsAtRest
  /\ HandlerAtRest

NextSessions ==
  \/ mcpHandler
  \/ sseHandler
  \/ resClose
  \/ sseMessagesHandler
  \/ stop

SpecSessions == InitSessions /\ [][NextSessions]_vars

-----------------------------------------------------------------------------
(* Properties of the transports *)

(* the request was answered by a handler that found a transport of the    *)
(* other kind under its session id                                        *)
OtherKind(answer) ==
  \/ answer.route = "/mcp" /\ answer.found = SSEServerTransport
  \/ answer.route = "/messages"
       /\ answer.found = StreamableHTTPServerTransport

(* a /mcp request without a known session id that is not a POST           *)
(* initialize request without session id                                  *)
NoSessionToUse(answer) ==
  /\ answer.route = "/mcp"
  /\ answer.found = None
  /\ ~(/\ answer.sessionId = NoSession
       /\ answer.method = "POST"
       /\ answer.initialize)

(* C34: handleRequest is invoked only on a StreamableHTTPServerTransport  *)
(* and handlePostMessage only on an SSEServerTransport; a request whose   *)
(* session id maps to a transport of the other kind, and a /mcp request   *)
(* that has no known session id and is not a session-less POST initialize *)
(* request, is answered 400 and no transport is created or invoked.       *)
C34_TransportKinds ==
  /\ http.invoked = "handleRequest" =>
       http.route = "/mcp" /\ http.on = StreamableHTTPServerTransport
  /\ http.invoked = "handlePostMessage" =>
       http.route = "/messages" /\ http.on = SSEServerTransport
  /\ (OtherKind(http) \/ NoSessionToUse(http)) =>
       /\ http.status = 400
       /\ http.invoked = None
       /\ http.created = None

(* a /mcp request carried the session id of an open SSE transport and was *)
(* refused                                                                *)
C34_Witness ==
  /\ http.route = "/mcp"
  /\ http.sessionId \in open
  /\ http.found = SSEServerTransport
  /\ http.status = 400

(* the session ids whose transport has closed *)
ClosedSessions == (1..nextSession) \ open

(* a request to /mcp or /messages was answered in this step *)
SessionRequestAnswered ==
  /\ http' # NoHttp
  /\ http'.route \in {"/mcp", "/messages"}

C35_Step ==
  /\ DOMAIN transports' \subseteq open'
  /\ \A sid \in open \ open' : sid \notin DOMAIN transports'
  /\ (SessionRequestAnswered /\ http'.sessionId \in ClosedSessions) =>
       /\ http'.status = 400
       /\ http'.invoked = None
  /\ ~running' => DOMAIN transports' = {}

-----------------------------------------------------------------------------
(* MCPHandler of packages/mcp-server (JSON-RPC 2.0) and the /mcp route     *)
(* that calls it.                                                          *)
(*                                                                         *)
(* express.json() hands the route a parsed body: one value or an array of  *)
(* values.  A value is a JSON object (shape "object": its jsonrpc, id,     *)
(* method and params members, any of which may be missing) or null (shape  *)
(* "null").  An optional member of a response is a set with at most one    *)
(* element.                                                                *)

MaxBatch == 2

(* request.id is undefined *)
NoId == 0
RequestIds == {NoId, 1, 2}

RpcMethods == {"initialize", "tools/list", "tools/call", "ping", "resources/list"}

(* params of the request: missing, without a name, naming no tool of the  *)
(* catalog, naming a tool whose call to Firefly III fails, naming a tool  *)
(* whose call succeeds                                                    *)
ParamsChoices == {None, "no name", "unknown tool", "failing tool", "tool"}

Null == [shape |-> "null", jsonrpc |-> None, id |-> NoId, method |-> None,
         params |-> None]

RpcRequests ==
  [shape : {"object"}, jsonrpc : {"2.0", "1.0"}, id : RequestIds,
   method : RpcMethods, params : ParamsChoices] \cup {Null}

(* the outcome of a call: a value returned or an exception thrown *)
Returned(value) == [threw |-> FALSE, value |-> value, message |-> None]
Thrown(message) == [threw |-> TRUE, value |-> None, message |-> message]

Result(of, protocolVersion) ==
  [of |-> of, protocolVersion |-> protocolVersion]

errorResponse(id, code, message) ==
  [jsonrpc |-> "2.0", id |-> id, result |-> {},
   error |-> {[code |-> code, message |-> message]}]

(* the earlier handleInitialize: the connection test decides *)
handleInitializeConnected(params) ==
  IF firefly = "connected"
  THEN Returned(Result("initialize", "2024-11-05"))
  ELSE Thrown("Failed to connect to Firefly III")

(* handleInitialize: the connection test only logs; its exception is      *)
(* caught                                                                 *)
handleInitialize(params) ==
  Returned(Result("initialize", "2024-11-05"))

handleToolsList == Returned(Result("tools/list", None))

(* handleToolsCall with executeTool *)
handleToolsCall(params) ==
  CASE params = None -> Thrown("Cannot destructure")
    [] params = "no name" -> Thrown("Tool name is required")
    [] params = "unknown tool" -> Thrown("Unknown tool")
    [] params = "failing tool" -> Thrown("Firefly III API error")
    [] OTHER -> Returned(Result("tools/call", None))

(* handleRequest: the members of the request are read before the try;     *)
(* what the handlers throw inside it becomes the error -32603             *)
handleRequest(request) ==
  IF request.shape = "null"
  THEN Thrown("Cannot destructure")
  ELSE IF request.jsonrpc # "2.0"
  THEN Returned(errorResponse(request.id, -32600, "Invalid Request"))
  ELSE IF request.method \notin {"initialize", "tools/list", "tools/call", "ping"}
  THEN Returned(errorResponse(request.id, -32601, "Method not found"))
  ELSE LET call ==
             CASE request.method = "initialize" ->
                    handleInitialize(request.params)
               [] request.method = "tools/list" -> handleToolsList
               [] request.method = "tools/call" ->
                    handleToolsCall(request.params)
               [] OTHER -> Returned(Result("ping", None))
       IN IF call.threw
          THEN Returned(errorResponse(request.id, -32603, call.message))
          ELSE Returned([jsonrpc |-> "2.0", id |-> request.id,
                         result |-> {call.value}, error |-> {}])

(* handleBatch: Promise.all over handleRequest of every element, which    *)
(* rejects when one of them rejects                                       *)
handleBatch(requests) ==
  IF \E i \in DOMAIN requests : handleRequest(requests[i]).threw
  THEN Thrown("Cannot destructure")
  ELSE Returned([i \in DOMAIN requests |-> handleRequest(requests[i]).value])

(* what handleMCP sends: the responses of MCPHandler with 200, or, after  *)
(* a throw, 500 with an error of its own and none of the responses        *)
Sent(status, responses) ==
  [outcome |-> IF status = 200 THEN "returned" ELSE "threw",
   status |-> status, responses |-> responses]

(* POST /mcp: an array goes to handleBatch, any other body to             *)
(* handleRequest                                                          *)
handleMCP ==
  /\ replies = NoReplies
  /\ LET call == IF posted.batch
                 THEN handleBatch(posted.requests)
                 ELSE handleRequest(posted.requests[1])
     IN replies' = IF call.threw
                   THEN Sent(500, <<>>)
                   ELSE IF posted.batch
                        THEN Sent(200, call.value)
                        ELSE Sent(200, <<call.value>>)
  /\ UNCHANGED <<firefly, posted, oauth, sessions>>

(* the bodies express.json() lets through: one JSON object, or an array   *)
(* of values                                                              *)
Bodies ==
  {[batch |-> FALSE, requests |-> <<request>>] :
     request \in RpcRequests \ {Null}}
    \cup
  {[batch |-> TRUE, requests |-> requests] :
     requests \in UNION {[1..n -> RpcRequests] : n \in 0..MaxBatch}}

(* a body arrives at a handler built around a Firefly III client whose    *)
(* connection test succeeds, returns false or throws                      *)
InitHandler ==
  /\ impl = "mcp"
  /\ workload = "clients"
  /\ strictResource = TRUE
  /\ OAuthAtRest
  /\ SessionsAtRest
  /\ firefly \in {"connected", "refused", "throws"}
  /\ posted \in Bodies
  /\ replies = NoReplies

NextHandler == handleMCP

SpecHandler == InitHandler /\ [][NextHandler]_vars

-----------------------------------------------------------------------------
(* Properties of MCPHandler *)

KnownMethods == {"initialize", "tools/list", "tools/call", "ping"}

(* handling the request raises an exception inside a handler of a known   *)
(* method                                                                 *)
Raises(request) ==
  /\ request.method = "tools/call"
  /\ request.params # "tool"

ErrorCodes(response) == {error.code : error \in response.error}

(* the response answers the request as JSON-RPC 2.0 asks *)
Answers(request, response) ==
  /\ response.jsonrpc = "2.0"
  /\ response.id = request.id
  /\ Cardinality(response.result) + Cardinality(response.error) = 1
  /\ request.jsonrpc # "2.0" => ErrorCodes(response) = {-32600}
  /\ (request.jsonrpc = "2.0" /\ request.method \notin KnownMethods) =>
       ErrorCodes(response) = {-32601}
  /\ (/\ request.jsonrpc = "2.0"
      /\ request.method \in KnownMethods
      /\ Raises(request)) =>
       ErrorCodes(response) = {-32603}

(* C36: handleRequest never throws and returns one JSON-RPC response per  *)
(* request, with the id of the request and either a result or an error    *)
(* (-32600 when jsonrpc is not "2.0", -32601 for an unknown method,       *)
(* -32603 for an exception raised while a known method is handled);       *)
(* handleBatch returns one response per request, in the order of the      *)
(* requests.                                                              *)
C36_OneResponsePerRequest ==
  replies # NoReplies =>
    /\ replies.outcome = "returned"
    /\ Len(replies.responses) = Len(posted.requests)
    /\ \A i \in DOMAIN posted.requests :
         Answers(posted.requests[i], replies.responses[i])

(* the request is a well-formed initialize request *)
IsInitialize(request) ==
  /\ request.shape = "object"
  /\ request.jsonrpc = "2.0"
  /\ request.method = "initialize"

====
